---- MODULE Spec2Model ----
(***************************************************************************)
(* TabSwitcherModal of the modals source (src/unnamed/part_000, lines      *)
(* 731-1032): the option snapshot taken on mount, the search pipeline      *)
(* (filterOptions, sortOptions, slice), the focus cursor moved by the      *)
(* global keydown listener, and the selection commit.                      *)
(*                                                                         *)
(* A JavaScript string is modelled as a sequence of one-character strings, *)
(* so that toLowerCase, trim, includes and split are computed as the       *)
(* runtime computes them.  Array indices are 0-based in the source; an     *)
(* array a is a sequence whose element a[i] of the source is a[i + 1].     *)
(***************************************************************************)
EXTENDS Integers, Sequences, FiniteSets, TLC

(***************************************************************************)
(* Bounds of the model.                                                    *)
(***************************************************************************)
\* longest text handed to handleSearch
MaxQueryLen == 2
\* most tabs in a small registry
MaxScreens == 2
\* number of tabs of the large registry (one more than the display cap)
BigCount == 101
\* key events handled between a popModal call and the unmount
MaxLateEvents == 1
\* highest row index that receives a pointer click
MaxClickIdx == 2
\* highest cursor position the arrow keys are followed to
MaxFocusedIdx == 3
\* most tabs in a registry of the ranking specification
MaxRankScreens == 3
\* highest cursor position an update cycle is started with
MaxClampIdx == 3
\* most clicks on Delete and on Import Config that are followed
MaxClicks == 2

(***************************************************************************)
(* Program constant (part_000:742).                                        *)
(***************************************************************************)
MaxOptionsToDisplay == 100

(***************************************************************************)
(* Strings.                                                                *)
(***************************************************************************)
\* the characters of a search text; names also hold "z", which no search
\* text holds
Chars == {"a", "A", "/", " "}

Str(n) == UNION {[1..k -> Chars] : k \in 0..n}

Queries == Str(MaxQueryLen)

\* String.prototype.toLowerCase, on the alphabet of the model
LowerChar(c) == IF c = "A" THEN "a" ELSE c

toLowerCase(s) == [i \in 1..Len(s) |-> LowerChar(s[i])]

\* String.prototype.includes
includes(s, sub) ==
    \E i \in 0..(Len(s) - Len(sub)) : SubSeq(s, i + 1, i + Len(sub)) = sub

\* String.prototype.trim: white space is removed at both ends
RECURSIVE trimStart(_)
trimStart(s) ==
    IF s # <<>> /\ Head(s) = " " THEN trimStart(Tail(s)) ELSE s

RECURSIVE trimEnd(_)
trimEnd(s) ==
    IF s # <<>> /\ s[Len(s)] = " " THEN trimEnd(SubSeq(s, 1, Len(s) - 1)) ELSE s

trim(s) == trimEnd(trimStart(s))

\* String.prototype.split("/"): the pieces between every two separators
RECURSIVE split(_)
split(s) ==
    IF \A i \in 1..Len(s) : s[i] # "/"
    THEN <<s>>
    ELSE LET p == CHOOSE i \in 1..Len(s) :
                      s[i] = "/" /\ \A j \in 1..(i - 1) : s[j] # "/"
         IN  <<SubSeq(s, 1, p - 1)>> \o split(SubSeq(s, p + 1, Len(s)))

\* a null or undefined string
Null == "<null>"

\* util.isBlank
isBlank(s) == s = Null \/ s = ""

\* util.isStrEq: two blank strings are equal
isStrEq(s1, s2) == (isBlank(s1) /\ isBlank(s2)) \/ s1 = s2

Range(s) == {s[i] : i \in 1..Len(s)}

(***************************************************************************)
(* The external registry read on mount: GlobalModel.sessionList,           *)
(* GlobalModel.screenMap and GlobalModel.getActiveSession().               *)
(***************************************************************************)
Session(id, name, idx, archived) ==
    [sessionId |-> id, name |-> name, sessionIdx |-> idx, archived |-> archived]

NoOpts == [isNull |-> TRUE, tabicon |-> "", tabcolor |-> ""]

Opts(icon, color) == [isNull |-> FALSE, tabicon |-> icon, tabcolor |-> color]

Screen(id, sessionId, name, idx, opts) ==
    [screenId |-> id, sessionId |-> sessionId, name |-> name,
     screenIdx |-> idx, opts |-> opts]

SmallSessions ==
    << Session("s1", <<"A">>, 1, FALSE),
       Session("s2", <<"z">>, 2, FALSE),
       Session("s3", <<"a">>, 3, TRUE) >>

ScreenPool ==
    { Screen(1, "s1", <<"a">>, 2, NoOpts),
      Screen(2, "s1", <<"z">>, 1, Opts("", "red")),
      Screen(3, "s2", <<"A", " ">>, 3, Opts("star", "")),
      Screen(4, "s3", <<"a">>, 1, NoOpts) }

\* the iteration orders of a screenMap that holds at most MaxScreens tabs
SmallScreenMaps ==
    {m \in UNION {[1..k -> ScreenPool] : k \in 0..MaxScreens} :
        \A i, j \in 1..Len(m) : i # j => m[i] # m[j]}

\* The registries that the session list and the screen map go through while
\* the switcher is open: the first of each set, and that one after a session
\* or tab was archived, renamed, re-indexed, removed or added.
LiveSessionLists ==
    { SmallSessions,
      [SmallSessions EXCEPT ![1].archived = TRUE],
      [SmallSessions EXCEPT ![2].name = <<"a">>],
      [SmallSessions EXCEPT ![1].sessionIdx = 5],
      << SmallSessions[1], SmallSessions[3] >>,
      Append(SmallSessions, Session("s4", <<"a">>, 4, FALSE)) }

LiveScreens ==
    << Screen(1, "s1", <<"a">>, 2, NoOpts), Screen(3, "s2", <<"A", " ">>, 3, Opts("star", "")) >>

LiveScreenMaps ==
    { LiveScreens,
      [LiveScreens EXCEPT ![1].name = <<"z">>],
      [LiveScreens EXCEPT ![1].screenIdx = 5],
      << LiveScreens[2] >>,
      Append(LiveScreens, Screen(2, "s1", <<"z">>, 1, Opts("", "red"))) }

BigSessions ==
    << Session("s1", <<"z">>, 1, FALSE), Session("s2", <<"z">>, 2, FALSE) >>

\* BigCount tabs of the two sessions, after a tab whose session is not in
\* the session list
BigScreenMap ==
    <<Screen(0, "s9", <<"z">>, 1, NoOpts)>> \o
    [i \in 1..BigCount |->
        Screen(i, IF i % 2 = 1 THEN "s1" ELSE "s2", <<"z">>, (i * 37) % 103, NoOpts)]

\* A registry for the snapshot and the ranking: three live sessions, an
\* archived one, tabs of a session that is not in the list, and two tabs
\* with the same session and the same screenIdx.
RankSessions ==
    << Session("s1", <<"A">>, 1, FALSE),
       Session("s2", <<"z">>, 2, FALSE),
       Session("s3", <<"a">>, 3, TRUE),
       Session("s4", <<"a">>, 4, FALSE) >>

RankScreenPool ==
    { Screen(11, "s1", <<"a">>, 2, NoOpts),
      Screen(12, "s1", <<"z">>, 1, Opts("", "red")),
      Screen(13, "s2", <<"A", " ">>, 3, Opts("star", "")),
      Screen(14, "s2", <<"a">>, 3, NoOpts),
      Screen(15, "s4", <<"z">>, 1, NoOpts),
      Screen(16, "s3", <<"a">>, 1, NoOpts),
      Screen(17, "s9", <<"a">>, 1, NoOpts) }

RankScreenMaps ==
    {m \in UNION {[1..k -> RankScreenPool] : k \in 0..MaxRankScreens} :
        \A i, j \in 1..Len(m) : i # j => m[i] # m[j]}

(***************************************************************************)
(* Remotes (connections), as the connection modals read them.  A null      *)
(* string is Null; a null object is a record whose isNull is TRUE.         *)
(***************************************************************************)
\* part_000:51
PasswordUnchangedSentinel == "--unchanged--"

RemoteIds == {"r1", "r2"}

Statuses == {"connected", "disconnected", "connecting"}

AuthModes == {"none", "key", "password", "key+password"}

Remote(remoteid, status, remotealias, connectmode, authtype) ==
    [isNull |-> FALSE, remoteid |-> remoteid, status |-> status, archived |-> FALSE,
     remotealias |-> remotealias, connectmode |-> connectmode, authtype |-> authtype]

NullRemote ==
    [isNull |-> TRUE, remoteid |-> Null, status |-> Null, archived |-> FALSE,
     remotealias |-> Null, connectmode |-> Null, authtype |-> Null]

RemoteEdit(haspassword, keystr) ==
    [isNull |-> FALSE, haspassword |-> haspassword, keystr |-> keystr]

NullRemoteEdit == [isNull |-> TRUE, haspassword |-> FALSE, keystr |-> Null]

\* the remotes with every combination of statuses
RemoteMaps ==
    {[id \in RemoteIds |-> Remote(id, st[id], "", "startup", "none")] :
        st \in [RemoteIds -> Statuses]}

(***************************************************************************)
(* State.                                                                  *)
(***************************************************************************)
VARIABLES
    sessionList,      \* GlobalModel.sessionList
    screenMap,        \* GlobalModel.screenMap, in iteration order
    activeSession,    \* GlobalModel.getActiveSession()
    phase,            \* "constructed", "mounted" or "unmounted"
    listeners,        \* keydown listeners of the component on document
    options,          \* this.options
    sOptions,         \* this.sOptions
    focusedIdx,       \* this.focusedIdx
    prevFocusedIdx,   \* this.prevFocusedIdx
    activeSessionIdx, \* this.activeSessionIdx
    searchText,       \* value of the search TextField, last given to handleSearch
    effects,          \* calls made to GlobalCommandRunner and GlobalModel.modalsModel
    lateEvents,       \* key events handled since the first popModal call
    lastEvent,        \* the event handled last
    conn,             \* what the connection modals and the connections view read
                      \* of GlobalModel, and the dialogs of showAlert (a record)
    edit              \* the observable boxes of EditRemoteConnModal (a record)

vars == <<sessionList, screenMap, activeSession, phase, listeners, options,
          sOptions, focusedIdx, prevFocusedIdx, activeSessionIdx, searchText,
          effects, lateEvents, lastEvent, conn, edit>>

\* the fields of conn
remotes == conn.remotes                    \* GlobalModel.getRemote, by remoteid
selectedRemoteId == conn.selectedRemoteId  \* remotesModel.selectedRemoteId
remoteEdit == conn.remoteEdit              \* remotesModel.remoteEdit
hideShellPrompt == conn.hideShellPrompt    \* clientopts.confirmflags.hideShellPrompt
alerts == conn.alerts                      \* the dialogs opened by showAlert, by click
clicks == conn.clicks                      \* clicks on Delete and Import Config so far

\* the fields of edit
tempAlias == edit.tempAlias
tempKeyFile == edit.tempKeyFile
tempPassword == edit.tempPassword
tempConnectMode == edit.tempConnectMode
tempAuthMode == edit.tempAuthMode
editPhase == edit.phase                    \* "constructed", "mounted" or "closed"

registry == <<sessionList, screenMap, activeSession>>

connState == conn

editFields == edit

\* the TabSwitcherModal
switcher == <<phase, listeners, options, sOptions, focusedIdx, prevFocusedIdx,
              activeSessionIdx, searchText, lateEvents>>

\* the calls recorded in effects
SwitchScreen(option) ==
    [op |-> "switchScreen", screenId |-> option.screenId, sessionId |-> option.sessionId]

PopModal == [op |-> "popModal", screenId |-> 0, sessionId |-> ""]

popped == \E i \in 1..Len(effects) : effects[i].op = "popModal"

\* Array.prototype.slice(0, n)
slice(a, n) == SubSeq(a, 1, IF Len(a) < n THEN Len(a) ELSE n)

\* a[index] of a JavaScript array: undefined outside 0..length-1
HasElem(a, index) == index >= 0 /\ index < Len(a)

(***************************************************************************)
(* TabSwitcherModal: field initializers (part_000:746-756).                *)
(***************************************************************************)
Constructed ==
    /\ phase = "constructed"
    /\ listeners = 0
    /\ options = <<>>
    /\ sOptions = <<>>
    /\ focusedIdx = 0
    /\ prevFocusedIdx = 0
    /\ activeSessionIdx = 0    \* not assigned before componentDidMount
    /\ searchText = <<>>
    /\ effects = <<>>
    /\ lateEvents = 0
    /\ lastEvent = "none"

\* The connection modals and the connections view are not in use: the boxes
\* of EditRemoteConnModal as its constructor creates them (part_000:448-456),
\* no remote, none selected, no dialog.
EditConstructed ==
    [tempAlias |-> Null, tempKeyFile |-> Null, tempPassword |-> Null,
     tempConnectMode |-> Null, tempAuthMode |-> Null, phase |-> "constructed"]

ConnectionsIdle ==
    /\ conn = [remotes |-> <<>>, selectedRemoteId |-> Null, remoteEdit |-> NullRemoteEdit,
               hideShellPrompt |-> FALSE, alerts |-> <<>>, clicks |-> 0]
    /\ edit = EditConstructed

Init ==
    /\ sessionList = SmallSessions
    /\ screenMap \in SmallScreenMaps
    /\ activeSession \in {s \in Range(SmallSessions) : ~s.archived}
    /\ Constructed
    /\ ConnectionsIdle

InitRank ==
    /\ sessionList = RankSessions
    /\ screenMap \in RankScreenMaps
    /\ activeSession \in {s \in Range(RankSessions) : ~s.archived}
    /\ Constructed
    /\ ConnectionsIdle

InitLive ==
    /\ sessionList = SmallSessions
    /\ screenMap = LiveScreens
    /\ activeSession \in {s \in Range(SmallSessions) : ~s.archived}
    /\ Constructed
    /\ ConnectionsIdle

InitBig ==
    /\ sessionList = BigSessions
    /\ screenMap = BigScreenMap
    /\ activeSession \in Range(BigSessions)
    /\ Constructed
    /\ ConnectionsIdle

(***************************************************************************)
(* Snapshot of the registry (componentDidMount, part_000:758-784).         *)
(***************************************************************************)
getTabIcon(screen) ==
    IF ~screen.opts.isNull /\ ~isBlank(screen.opts.tabicon)
    THEN screen.opts.tabicon ELSE "default"

getTabColor(screen) ==
    IF ~screen.opts.isNull /\ ~isBlank(screen.opts.tabcolor)
    THEN screen.opts.tabcolor ELSE "default"

\* owner test that does not look at archived
IsOwner_IgnoresArchived(s, oScreen) == s.sessionId = oScreen.sessionId

\* oSessions.find(...): the first session of the list that owns the screen
\* and is not archived
IsOwner(s, oScreen) == s.sessionId = oScreen.sessionId /\ s.archived = FALSE

HasFoundSession(oSessions, oScreen) ==
    \E i \in 1..Len(oSessions) : IsOwner(oSessions[i], oScreen)

FoundSession(oSessions, oScreen) ==
    oSessions[CHOOSE i \in 1..Len(oSessions) :
                  /\ IsOwner(oSessions[i], oScreen)
                  /\ \A j \in 1..(i - 1) : ~IsOwner(oSessions[j], oScreen)]

SwitcherData(foundSession, oScreen) ==
    [sessionName |-> foundSession.name,
     sessionId   |-> foundSession.sessionId,
     sessionIdx  |-> foundSession.sessionIdx,
     screenName  |-> oScreen.name,
     screenId    |-> oScreen.screenId,
     screenIdx   |-> oScreen.screenIdx,
     icon        |-> getTabIcon(oScreen),
     color       |-> getTabColor(oScreen)]

\* oScreens.forEach(...): this.options.push(data) for every screen with a
\* session, in the iteration order of the map
Snapshot(oSessions, oScreens) ==
    LET kept == SelectSeq(oScreens, LAMBDA oScreen : HasFoundSession(oSessions, oScreen))
    IN  [i \in 1..Len(kept) |-> SwitcherData(FoundSession(oSessions, kept[i]), kept[i])]

(***************************************************************************)
(* filterOptions (part_000:901-926).                                       *)
(***************************************************************************)
Match(tab, searchInput) ==
    IF includes(searchInput, <<"/">>)
    THEN LET parts         == split(searchInput)
             sessionFilter == toLowerCase(trim(parts[1]))
             screenFilter  == toLowerCase(trim(parts[2]))
         IN  /\ includes(toLowerCase(tab.sessionName), sessionFilter)
             /\ includes(toLowerCase(tab.screenName), screenFilter)
    ELSE \/ includes(toLowerCase(tab.sessionName), searchInput)
         \/ includes(toLowerCase(tab.screenName), searchInput)

filterOptions(opts, searchInput) ==
    SelectSeq(opts, LAMBDA tab : Match(tab, searchInput))

(***************************************************************************)
(* sortOptions (part_000:930-956).  Array.prototype.sort is stable, and   *)
(* so is SortSeq, an insertion sort that moves an element only past the    *)
(* elements it is strictly less than.  The array is sorted in place: the   *)
(* callers that pass this.options assign the result to it.                 *)
(***************************************************************************)
\* comparator that does not look at the active session
compare_IgnoresActive(a, b, activeIdx) ==
    IF a.sessionIdx = b.sessionIdx THEN a.screenIdx - b.screenIdx
    ELSE a.sessionIdx - b.sessionIdx

\* comparator that orders the other sessions by screenIdx before sessionIdx
compare_ScreenIdxFirst(a, b, activeIdx) ==
    LET aInCurrentSession == a.sessionIdx = activeIdx
        bInCurrentSession == b.sessionIdx = activeIdx
    IN  IF aInCurrentSession /\ bInCurrentSession THEN a.screenIdx - b.screenIdx
        ELSE IF aInCurrentSession THEN -1
        ELSE IF bInCurrentSession THEN 1
        ELSE IF a.screenIdx = b.screenIdx THEN a.sessionIdx - b.sessionIdx
        ELSE a.screenIdx - b.screenIdx

\* comparator that puts an option before another one with the same keys
compare_TieIsLess(a, b, activeIdx) ==
    LET aInCurrentSession == a.sessionIdx = activeIdx
        bInCurrentSession == b.sessionIdx = activeIdx
    IN  IF aInCurrentSession /\ bInCurrentSession
        THEN IF a.screenIdx = b.screenIdx THEN -1 ELSE a.screenIdx - b.screenIdx
        ELSE IF aInCurrentSession THEN -1
        ELSE IF bInCurrentSession THEN 1
        ELSE IF a.sessionIdx = b.sessionIdx
             THEN IF a.screenIdx = b.screenIdx THEN -1 ELSE a.screenIdx - b.screenIdx
        ELSE a.sessionIdx - b.sessionIdx

compare(a, b, activeIdx) ==
    LET aInCurrentSession == a.sessionIdx = activeIdx
        bInCurrentSession == b.sessionIdx = activeIdx
    IN  IF aInCurrentSession /\ bInCurrentSession THEN a.screenIdx - b.screenIdx
        ELSE IF aInCurrentSession THEN -1
        ELSE IF bInCurrentSession THEN 1
        ELSE IF a.sessionIdx = b.sessionIdx THEN a.screenIdx - b.screenIdx
        ELSE a.sessionIdx - b.sessionIdx

sortOptions(opts, activeIdx) ==
    SortSeq(opts, LAMBDA a, b : compare(a, b, activeIdx) < 0)

(***************************************************************************)
(* Lifecycle (part_000:758-814).                                           *)
(***************************************************************************)
\* The update cycle that follows a change of the observables, applied to the
\* values a handler has just set: prevFocusedIdx follows the cursor, and a
\* cursor at or past the end of a non-empty list is set to the last index
\* (which starts one more cycle, after which prevFocusedIdx follows again).
componentDidUpdate(currFocusedIdx, length) ==
    /\ focusedIdx' = IF currFocusedIdx >= length /\ length > 0
                     THEN length - 1
                     ELSE currFocusedIdx
    /\ prevFocusedIdx' = focusedIdx'

componentDidMount ==
    /\ phase = "constructed"
    /\ phase' = "mounted"
    /\ activeSessionIdx' = activeSession.sessionIdx
    /\ options' = sortOptions(options \o Snapshot(sessionList, screenMap),
                              activeSessionIdx')
    /\ sOptions' = slice(options', MaxOptionsToDisplay)
    /\ listeners' = listeners + 1
    /\ componentDidUpdate(focusedIdx, Len(sOptions'))
    /\ lastEvent' = "mount"
    /\ UNCHANGED <<registry, connState, editFields, searchText, effects, lateEvents>>

\* unmount that leaves the listener on document
componentWillUnmount_KeepsListener ==
    /\ phase = "mounted"
    /\ phase' = "unmounted"
    /\ lastEvent' = "unmount"
    /\ UNCHANGED <<registry, connState, editFields, listeners, options, sOptions, focusedIdx, prevFocusedIdx,
                   activeSessionIdx, searchText, effects, lateEvents>>

\* part_000:793-795
componentWillUnmount ==
    /\ phase = "mounted"
    /\ phase' = "unmounted"
    /\ listeners' = IF listeners > 0 THEN listeners - 1 ELSE 0
    /\ lastEvent' = "unmount"
    /\ UNCHANGED <<registry, connState, editFields, options, sOptions, focusedIdx, prevFocusedIdx,
                   activeSessionIdx, searchText, effects, lateEvents>>

(***************************************************************************)
(* Events.  The keydown listener stays registered until the unmount: a key *)
(* event that arrives after popModal was called and before the component   *)
(* is unmounted is handled like any other.  The model follows at most      *)
(* MaxLateEvents of them, and no search or click after popModal.           *)
(***************************************************************************)
Keys == {"Escape", "ArrowUp", "ArrowDown", "Enter", "a"}

Accepting == ~popped \/ lateEvents < MaxLateEvents

Handled(name) ==
    /\ lastEvent' = name
    /\ lateEvents' = IF popped THEN lateEvents + 1 ELSE lateEvents

\* index computation whose ArrowDown wraps from the last option to the first
calculateNewIndex_WrapsDown(isUpKey) ==
    LET currentIndex == focusedIdx
    IN  IF isUpKey
        THEN IF currentIndex - 1 > 0 THEN currentIndex - 1 ELSE 0
        ELSE IF currentIndex + 1 <= Len(sOptions) - 1
             THEN currentIndex + 1
             ELSE 0

\* index computation whose ArrowUp has no floor at 0
calculateNewIndex_NoFloor(isUpKey) ==
    LET currentIndex == focusedIdx
    IN  IF isUpKey
        THEN currentIndex - 1
        ELSE IF currentIndex + 1 < Len(sOptions) - 1
             THEN currentIndex + 1
             ELSE Len(sOptions) - 1

\* part_000:851-858
calculateNewIndex(isUpKey) ==
    LET currentIndex == focusedIdx
    IN  IF isUpKey
        THEN IF currentIndex - 1 > 0 THEN currentIndex - 1 ELSE 0
        ELSE IF currentIndex + 1 < Len(sOptions) - 1
             THEN currentIndex + 1
             ELSE Len(sOptions) - 1

\* closeModal that pops nothing
closeModal_NoPop == <<>>

\* part_000:868-870: the calls closeModal makes
closeModal == <<PopModal>>

\* handleSelect that closes before it dispatches
handleSelect_CloseFirst(index) ==
    IF HasElem(sOptions, index)
    THEN closeModal \o <<SwitchScreen(sOptions[index + 1])>>
    ELSE <<>>

\* handleSelect that closes also when there is no option at index
handleSelect_AlwaysClose(index) ==
    IF HasElem(sOptions, index)
    THEN <<SwitchScreen(sOptions[index + 1])>> \o closeModal
    ELSE closeModal

\* part_000:873-879: the calls handleSelect makes, in order
handleSelect(index) ==
    IF HasElem(sOptions, index)
    THEN LET selectedOption == sOptions[index + 1]
         IN  <<SwitchScreen(selectedOption)>> \o closeModal
    ELSE <<>>

\* listener whose Escape branch selects the focused option
handleKeyDown_EscapeSelects(key) ==
    /\ listeners > 0
    /\ Accepting
    /\ Handled(key)
    /\ \/ /\ key = "Escape"
          /\ effects' = effects \o handleSelect(focusedIdx)
          /\ UNCHANGED <<focusedIdx, prevFocusedIdx>>
       \/ /\ key \in {"ArrowUp", "ArrowDown"}
          /\ calculateNewIndex(key = "ArrowUp") <= MaxFocusedIdx
          /\ componentDidUpdate(calculateNewIndex(key = "ArrowUp"), Len(sOptions))
          /\ UNCHANGED effects
       \/ /\ key = "Enter"
          /\ effects' = effects \o handleSelect(focusedIdx)
          /\ UNCHANGED <<focusedIdx, prevFocusedIdx>>
       \/ /\ key \notin {"Escape", "ArrowUp", "ArrowDown", "Enter"}
          /\ UNCHANGED <<effects, focusedIdx, prevFocusedIdx>>
    /\ UNCHANGED <<registry, connState, editFields, phase, listeners, options, sOptions,
                   activeSessionIdx, searchText>>

\* listener whose arrow keys also select the option they move to
handleKeyDown_ArrowsSelect(key) ==
    /\ listeners > 0
    /\ Accepting
    /\ Handled(key)
    /\ \/ /\ key = "Escape"
          /\ effects' = effects \o closeModal
          /\ UNCHANGED <<focusedIdx, prevFocusedIdx>>
       \/ /\ key \in {"ArrowUp", "ArrowDown"}
          /\ calculateNewIndex(key = "ArrowUp") <= MaxFocusedIdx
          /\ componentDidUpdate(calculateNewIndex(key = "ArrowUp"), Len(sOptions))
          /\ effects' = effects \o handleSelect(calculateNewIndex(key = "ArrowUp"))
       \/ /\ key = "Enter"
          /\ effects' = effects \o handleSelect(focusedIdx)
          /\ UNCHANGED <<focusedIdx, prevFocusedIdx>>
       \/ /\ key \notin {"Escape", "ArrowUp", "ArrowDown", "Enter"}
          /\ UNCHANGED <<effects, focusedIdx, prevFocusedIdx>>
    /\ UNCHANGED <<registry, connState, editFields, phase, listeners, options, sOptions,
                   activeSessionIdx, searchText>>

\* part_000:837-848, the listener registered on document
handleKeyDown(key) ==
    /\ listeners > 0
    /\ Accepting
    /\ Handled(key)
    /\ \/ /\ key = "Escape"
          /\ effects' = effects \o closeModal
          /\ UNCHANGED <<focusedIdx, prevFocusedIdx>>
       \/ /\ key \in {"ArrowUp", "ArrowDown"}
          /\ calculateNewIndex(key = "ArrowUp") <= MaxFocusedIdx
          /\ componentDidUpdate(calculateNewIndex(key = "ArrowUp"), Len(sOptions))
          /\ UNCHANGED effects
       \/ /\ key = "Enter"
          /\ effects' = effects \o handleSelect(focusedIdx)
          /\ UNCHANGED <<focusedIdx, prevFocusedIdx>>
       \/ /\ key \notin {"Escape", "ArrowUp", "ArrowDown", "Enter"}
          /\ UNCHANGED <<effects, focusedIdx, prevFocusedIdx>>
    /\ UNCHANGED <<registry, connState, editFields, phase, listeners, options, sOptions,
                   activeSessionIdx, searchText>>

\* part_000:979, onClick of the option row rendered at index
clickOption(index) ==
    /\ phase = "mounted"
    /\ ~popped
    /\ HasElem(sOptions, index)
    /\ Handled("click")
    /\ effects' = effects \o handleSelect(index)
    /\ UNCHANGED <<registry, connState, editFields, phase, listeners, options, sOptions, focusedIdx,
                   prevFocusedIdx, activeSessionIdx, searchText>>

\* searchResult that does not cut a filtered list
searchResult_NoCap(val) ==
    IF val = <<>>
    THEN slice(sortOptions(options, activeSessionIdx), MaxOptionsToDisplay)
    ELSE sortOptions(filterOptions(options, val), activeSessionIdx)

\* part_000:883-892: the local sOptions that handleSearch computes
searchResult(val) ==
    IF val = <<>>
    THEN slice(sortOptions(options, activeSessionIdx), MaxOptionsToDisplay)
    ELSE LET sorted == sortOptions(filterOptions(options, val), activeSessionIdx)
         IN  IF Len(sorted) > MaxOptionsToDisplay
             THEN slice(sorted, MaxOptionsToDisplay)
             ELSE sorted

\* handleSearch that takes the options and the active session from the
\* registry again
handleSearch_Resyncs(val) ==
    /\ phase = "mounted"
    /\ ~popped
    /\ Handled("search")
    /\ searchText' = val
    /\ activeSessionIdx' = activeSession.sessionIdx
    /\ options' = sortOptions(Snapshot(sessionList, screenMap), activeSessionIdx')
    /\ sOptions' = LET sorted == sortOptions(filterOptions(options', val), activeSessionIdx')
                   IN  slice(sorted, MaxOptionsToDisplay)
    /\ componentDidUpdate(0, Len(sOptions'))
    /\ UNCHANGED <<registry, connState, editFields, phase, listeners, effects>>

\* handleSearch that keeps the filtered list as this.options
handleSearch_FiltersInPlace(val) ==
    /\ phase = "mounted"
    /\ ~popped
    /\ Handled("search")
    /\ searchText' = val
    /\ options' = sortOptions(filterOptions(options, val), activeSessionIdx)
    /\ sOptions' = slice(options', MaxOptionsToDisplay)
    /\ componentDidUpdate(0, Len(sOptions'))
    /\ UNCHANGED <<registry, connState, editFields, phase, listeners, activeSessionIdx, effects>>

\* part_000:882-897, onChange of the search TextField; with the empty text
\* this.options itself is sorted in place
handleSearch(val) ==
    /\ phase = "mounted"
    /\ ~popped
    /\ Handled("search")
    /\ searchText' = val
    /\ options' = IF val = <<>> THEN sortOptions(options, activeSessionIdx) ELSE options
    /\ sOptions' = searchResult(val)
    /\ componentDidUpdate(0, Len(sOptions'))
    /\ UNCHANGED <<registry, connState, editFields, phase, listeners, activeSessionIdx, effects>>

Next ==
    \/ componentDidMount
    \/ componentWillUnmount
    \/ \E key \in Keys : handleKeyDown(key)
    \/ \E index \in 0..MaxClickIdx : clickOption(index)
    \/ \E val \in Queries : handleSearch(val)

Spec == Init /\ [][Next]_vars

SpecBig == InitBig /\ [][Next]_vars

\* The snapshot and the search pipeline alone, on the ranking registries:
\* mount, and searches for the texts of at most one character.
ShortQueries == {q \in Queries : Len(q) <= 1}

NextRank ==
    \/ componentDidMount
    \/ \E val \in ShortQueries : handleSearch(val)

SpecRank == InitRank /\ [][NextRank]_vars

\* A change of the registry by the rest of the application while the
\* switcher is open: the screen map, the session list (with it the active
\* session, which is one of the list) or the active session alone.  The
\* component has no reaction to it: it reads GlobalModel in componentDidMount
\* only, and the options hold copies of the values.
registryChange ==
    /\ phase = "mounted"
    /\ \/ /\ screenMap' \in LiveScreenMaps \ {screenMap}
          /\ UNCHANGED <<sessionList, activeSession>>
       \/ /\ sessionList' \in LiveSessionLists \ {sessionList}
          /\ activeSession' \in {s \in Range(sessionList') : ~s.archived}
          /\ UNCHANGED screenMap
       \/ /\ activeSession' \in {s \in Range(sessionList) : ~s.archived} \ {activeSession}
          /\ UNCHANGED <<sessionList, screenMap>>
    /\ UNCHANGED <<connState, editFields, phase, listeners, options, sOptions,
                   focusedIdx, prevFocusedIdx, activeSessionIdx, searchText,
                   effects, lateEvents, lastEvent>>

\* The switcher and its search field while the registry changes under it.
NextLive ==
    \/ componentDidMount
    \/ \E val \in Queries : handleSearch(val)
    \/ registryChange

SpecLive == InitLive /\ [][NextLive]_vars

\* A mounted switcher at the start of an update cycle, for every cursor
\* position up to MaxClampIdx: the inputs of componentDidUpdate, among them
\* the positions past the end of the list that the clamp is written for.
InitClamp ==
    /\ sessionList = SmallSessions
    /\ screenMap \in SmallScreenMaps
    /\ activeSession \in {s \in Range(SmallSessions) : ~s.archived}
    /\ phase = "mounted"
    /\ listeners = 1
    /\ activeSessionIdx = activeSession.sessionIdx
    /\ options = sortOptions(Snapshot(sessionList, screenMap), activeSessionIdx)
    /\ sOptions = slice(options, MaxOptionsToDisplay)
    /\ focusedIdx \in 0..MaxClampIdx
    /\ prevFocusedIdx = 0
    /\ searchText = <<>>
    /\ effects = <<>>
    /\ lateEvents = 0
    /\ lastEvent = "mount"
    /\ ConnectionsIdle

\* update cycle that does not clamp
updateCycle_NoClamp ==
    /\ phase = "mounted"
    /\ lastEvent' = "update"
    /\ prevFocusedIdx' = focusedIdx
    /\ UNCHANGED <<registry, connState, editFields, phase, listeners, options, sOptions, focusedIdx,
                   activeSessionIdx, searchText, effects, lateEvents>>

\* part_000:797-814, one call of componentDidUpdate: prevFocusedIdx follows
\* the cursor, and a cursor at or past the end of a non-empty list is set to
\* the last index
updateCycle ==
    /\ phase = "mounted"
    /\ lastEvent' = "update"
    /\ LET currFocusedIdx == focusedIdx
       IN  /\ prevFocusedIdx' = IF currFocusedIdx # prevFocusedIdx
                                THEN currFocusedIdx ELSE prevFocusedIdx
           /\ focusedIdx' = IF currFocusedIdx >= Len(sOptions) /\ Len(sOptions) > 0
                            THEN Len(sOptions) - 1
                            ELSE focusedIdx
    /\ UNCHANGED <<registry, connState, editFields, phase, listeners, options, sOptions,
                   activeSessionIdx, searchText, effects, lateEvents>>

\* The update cycle and the search field, from every cursor position.
NextClamp ==
    \/ updateCycle
    \/ \E val \in ShortQueries : handleSearch(val)

SpecClamp == InitClamp /\ [][NextClamp]_vars

(***************************************************************************)
(* ViewRemoteConnDetailModal (part_000:66-173) and ConnectionsView         *)
(* (connections.tsx:19-106).  showAlert opens a dialog and returns a       *)
(* promise; the user's answer resolves it, and the then-callback of the    *)
(* click that opened the dialog runs with the state of that moment.        *)
(***************************************************************************)
InitConn ==
    /\ sessionList = SmallSessions
    /\ screenMap = <<>>
    /\ activeSession = SmallSessions[1]
    /\ Constructed
    /\ conn \in [remotes : RemoteMaps, selectedRemoteId : RemoteIds \cup {Null},
                  remoteEdit : {NullRemoteEdit}, hideShellPrompt : BOOLEAN,
                  alerts : {<<>>}, clicks : {0}]
    /\ edit = EditConstructed

\* GlobalModel.getRemote(remoteid): null for an id that no remote has
getRemote(remoteid) ==
    IF remoteid \in DOMAIN remotes THEN remotes[remoteid] ELSE NullRemote

\* part_000:77-81
selectedRemote == getRemote(selectedRemoteId)

\* a dialog of showAlert, opened by the click with that number
Alert(click, kind) == [click |-> click, kind |-> kind, answer |-> "open"]

\* the calls recorded in effects, with the click they come from
ArchiveRemote(remoteid, click) ==
    [op |-> "archiveRemote", remoteid |-> remoteid, click |-> click]

ImportSshConfig(click) ==
    [op |-> "importSshConfig", remoteid |-> Null, click |-> click]

\* part_000:155-163: the dialog that clickArchive opens
clickArchive ==
    /\ clicks < MaxClicks
    /\ lastEvent' = "clickArchive"
    /\ conn' = [conn EXCEPT
                  !.clicks = clicks + 1,
                  !.alerts = IF ~selectedRemote.isNull /\ selectedRemote.status = "connected"
                             THEN Append(alerts, Alert(clicks + 1, "cannotDelete"))
                             ELSE Append(alerts, Alert(clicks + 1, "confirmArchive"))]
    /\ UNCHANGED <<registry, switcher, effects, editFields>>

\* then-callback that archives without a confirmation
archiveThen_IgnoresConfirm(confirm, click) ==
    IF ~selectedRemote.isNull
    THEN <<ArchiveRemote(selectedRemote.remoteid, click)>>
    ELSE <<>>

\* part_000:164-171: the calls of the then-callback of clickArchive
archiveThen(confirm, click) ==
    IF ~confirm THEN <<>>
    ELSE IF ~selectedRemote.isNull
         THEN <<ArchiveRemote(selectedRemote.remoteid, click)>>
         ELSE <<>>

\* connections.tsx:76-78
importSshConfig(click) == <<ImportSshConfig(click)>>

\* then-callback that calls back whatever the answer
showShellPromptThen_IgnoresConfirm(confirm, click) == importSshConfig(click)

\* connections.tsx:99-104: the calls of the then-callback of showShellPrompt
showShellPromptThen(confirm, click) ==
    IF ~confirm THEN <<>> ELSE importSshConfig(click)

\* connections.tsx:81-90 with the dialog of showShellPrompt (92-98)
handleImportSshConfig ==
    /\ clicks < MaxClicks
    /\ lastEvent' = "clickImport"
    /\ IF hideShellPrompt
       THEN /\ conn' = [conn EXCEPT
                          !.clicks = clicks + 1,
                          !.alerts = Append(alerts, Alert(clicks + 1, "shellPrompt"))]
            /\ UNCHANGED effects
       ELSE /\ conn' = [conn EXCEPT !.clicks = clicks + 1]
            /\ effects' = effects \o importSshConfig(clicks + 1)
    /\ UNCHANGED <<registry, switcher, editFields>>

\* The user answers the dialog at position i: the promise resolves with
\* confirm and the then-callback of the click runs.
resolveAlert(i, confirm) ==
    /\ i \in 1..Len(alerts)
    /\ alerts[i].answer = "open"
    /\ conn' = [conn EXCEPT !.alerts[i].answer = IF confirm THEN "true" ELSE "false"]
    /\ lastEvent' = "resolve"
    /\ effects' = effects \o
          (IF alerts[i].kind = "confirmArchive" THEN archiveThen(confirm, alerts[i].click)
           ELSE IF alerts[i].kind = "shellPrompt"
                THEN showShellPromptThen(confirm, alerts[i].click)
           ELSE <<>>)
    /\ UNCHANGED <<registry, switcher, editFields>>

\* The remotes change under the modal: a remote connects or disconnects, or
\* another remote (or none) becomes the selected one.
remoteChange ==
    /\ \/ \E id \in RemoteIds : \E st \in Statuses \ {remotes[id].status} :
             conn' = [conn EXCEPT !.remotes[id].status = st]
       \/ \E id \in (RemoteIds \cup {Null}) \ {selectedRemoteId} :
             conn' = [conn EXCEPT !.selectedRemoteId = id]
    /\ UNCHANGED <<registry, switcher, effects, lastEvent, editFields>>

NextConn ==
    \/ clickArchive
    \/ handleImportSshConfig
    \/ \E i \in 1..MaxClicks : \E confirm \in BOOLEAN : resolveAlert(i, confirm)
    \/ remoteChange

SpecConn == InitConn /\ [][NextConn]_vars

(***************************************************************************)
(* EditRemoteConnModal (part_000:440-580).  render shows the form only     *)
(* while remoteEdit is not null, the key file field only in the key modes  *)
(* and the password field only in the password modes.                      *)
(***************************************************************************)
Passwords == {"", "pw", PasswordUnchangedSentinel}

KeyFiles == {"", "k1"}

Aliases == {"", "al"}

ConnectModes == {"startup", "auto", "manual"}

InitEdit ==
    /\ sessionList = SmallSessions
    /\ screenMap = <<>>
    /\ activeSession = SmallSessions[1]
    /\ Constructed
    /\ conn \in [remotes : {[id \in RemoteIds |->
                                 Remote(id, "disconnected", alias, "startup", authtype)] :
                                 alias \in Aliases, authtype \in AuthModes},
                  selectedRemoteId : {"r1"},
                  remoteEdit : {RemoteEdit(hp, ks) : hp \in BOOLEAN, ks \in {Null, "k1"}},
                  hideShellPrompt : {FALSE}, alerts : {<<>>}, clicks : {0}]
    /\ edit = EditConstructed

editFrame == <<registry, switcher, connState>>

\* part_000:474-482
editDidMount ==
    /\ editPhase = "constructed"
    /\ lastEvent' = "mountEdit"
    /\ edit' = [tempAlias       |-> selectedRemote.remotealias,
                tempKeyFile     |-> remoteEdit.keystr,
                tempPassword    |-> IF ~remoteEdit.isNull /\ remoteEdit.haspassword
                                    THEN PasswordUnchangedSentinel ELSE "",
                tempConnectMode |-> selectedRemote.connectmode,
                tempAuthMode    |-> selectedRemote.authtype,
                phase           |-> "mounted"]
    /\ UNCHANGED <<editFrame, effects>>

formShown == editPhase = "mounted" /\ ~remoteEdit.isNull

\* part_000:490-495
handleChangeKeyFile(value) ==
    /\ formShown
    /\ tempAuthMode \in {"key", "key+password"}
    /\ lastEvent' = "changeKeyFile"
    /\ edit' = [edit EXCEPT !.tempKeyFile = value]
    /\ UNCHANGED <<editFrame, effects>>

\* part_000:497-502
handleChangePassword(value) ==
    /\ formShown
    /\ tempAuthMode \in {"password", "key+password"}
    /\ lastEvent' = "changePassword"
    /\ edit' = [edit EXCEPT !.tempPassword = value]
    /\ UNCHANGED <<editFrame, effects>>

\* part_000:504-509
handleChangeAlias(value) ==
    /\ formShown
    /\ lastEvent' = "changeAlias"
    /\ edit' = [edit EXCEPT !.tempAlias = value]
    /\ UNCHANGED <<editFrame, effects>>

\* part_000:511-516
handleChangeAuthMode(value) ==
    /\ formShown
    /\ lastEvent' = "changeAuthMode"
    /\ edit' = [edit EXCEPT !.tempAuthMode = value]
    /\ UNCHANGED <<editFrame, effects>>

\* part_000:518-523
handleChangeConnectMode(value) ==
    /\ formShown
    /\ lastEvent' = "changeConnectMode"
    /\ edit' = [edit EXCEPT !.tempConnectMode = value]
    /\ UNCHANGED <<editFrame, effects>>

\* kwargs[key] = value, when cond holds
arg(cond, key, value) == IF cond THEN {<<key, value>>} ELSE {}

\* kwargs that carry the password field whenever the mode uses a password
submitKwargs_SendsField ==
    LET authMode == tempAuthMode
    IN  (IF authMode = "key" \/ authMode = "key+password"
         THEN arg(~isStrEq(tempKeyFile, remoteEdit.keystr), "key", tempKeyFile)
         ELSE arg(~isBlank(tempKeyFile), "key", ""))
        \cup
        (IF authMode = "password" \/ authMode = "key+password"
         THEN arg(TRUE, "password", tempPassword)
         ELSE arg(~remoteEdit.isNull /\ remoteEdit.haspassword, "password", ""))
        \cup arg(~isStrEq(tempAlias, selectedRemote.remotealias), "alias", tempAlias)
        \cup arg(~isStrEq(tempConnectMode, selectedRemote.connectmode),
                 "connectmode", tempConnectMode)
        \cup {<<"visual", "1">>, <<"submit", "1">>}

\* part_000:549-575: the kwargs of the edit command, as key-value pairs
submitKwargs ==
    LET authMode == tempAuthMode
    IN  (IF authMode = "key" \/ authMode = "key+password"
         THEN arg(~isStrEq(tempKeyFile, remoteEdit.keystr), "key", tempKeyFile)
         ELSE arg(~isBlank(tempKeyFile), "key", ""))
        \cup
        (IF authMode = "password" \/ authMode = "key+password"
         THEN arg(tempPassword # PasswordUnchangedSentinel, "password", tempPassword)
         ELSE arg(~remoteEdit.isNull /\ remoteEdit.haspassword, "password", ""))
        \cup arg(~isStrEq(tempAlias, selectedRemote.remotealias), "alias", tempAlias)
        \cup arg(~isStrEq(tempConnectMode, selectedRemote.connectmode),
                 "connectmode", tempConnectMode)
        \cup {<<"visual", "1">>, <<"submit", "1">>}

\* the calls recorded in effects
EditRemote(remoteid, kwargs) == [op |-> "editRemote", remoteid |-> remoteid, kwargs |-> kwargs]

CloseModal == [op |-> "closeModal", remoteid |-> Null, kwargs |-> {}]

\* part_000:547-580, onOk of the footer
submitRemote ==
    /\ formShown
    /\ lastEvent' = "submit"
    /\ effects' = effects \o <<EditRemote(selectedRemote.remoteid, submitKwargs), CloseModal>>
    /\ edit' = [edit EXCEPT !.phase = "closed"]
    /\ UNCHANGED editFrame

NextEdit ==
    \/ editDidMount
    \/ \E value \in KeyFiles : handleChangeKeyFile(value)
    \/ \E value \in Passwords : handleChangePassword(value)
    \/ \E value \in Aliases : handleChangeAlias(value)
    \/ \E value \in AuthModes : handleChangeAuthMode(value)
    \/ \E value \in ConnectModes : handleChangeConnectMode(value)
    \/ submitRemote

SpecEdit == InitEdit /\ [][NextEdit]_vars

(***************************************************************************)
(* Properties.                                                             *)
(***************************************************************************)
Max(a, b) == IF a > b THEN a ELSE b

isOpen == phase = "mounted"

CountOp(log, op) == Cardinality({i \in 1..Len(log) : log[i].op = op})

\* C1: while the switcher is open the cursor satisfies
\* 0 <= focusedIndex < max(1, len(visibleOptions)): it is never negative and
\* never past the last visible option.
C1_CursorInBounds ==
    isOpen => (0 <= focusedIdx /\ focusedIdx < Max(1, Len(sOptions)))

\* C2: Enter with an option at focusedIndex dispatches exactly one switch
\* command, with the screenId and sessionId of the option at focusedIndex in
\* the current visibleOptions, and the close follows that dispatch.
C2_EnterDispatchesFocused ==
    [][(lastEvent' = "Enter" /\ HasElem(sOptions, focusedIdx)) =>
          effects' = effects \o << [op        |-> "switchScreen",
                                    screenId  |-> sOptions[focusedIdx + 1].screenId,
                                    sessionId |-> sOptions[focusedIdx + 1].sessionId],
                                   PopModal >>]_vars

\* Enter has committed an option below the first row
C2_Witness ==
    /\ lastEvent = "Enter"
    /\ focusedIdx >= 1
    /\ HasElem(sOptions, focusedIdx)
    /\ effects = <<SwitchScreen(sOptions[focusedIdx + 1]), PopModal>>

\* C3: Enter with no option at focusedIndex (empty list or index out of
\* range) does nothing: no command, no close, visibleOptions and
\* focusedIndex unchanged.
C3_EnterWithoutOptionIsNoOp ==
    [][(lastEvent' = "Enter" /\ ~HasElem(sOptions, focusedIdx)) =>
          UNCHANGED <<effects, phase, listeners, options, sOptions, focusedIdx,
                      prevFocusedIdx, activeSessionIdx, searchText>>]_vars

\* Enter was pressed on an open switcher that shows no option
C3_Witness ==
    /\ lastEvent = "Enter"
    /\ isOpen
    /\ options # <<>>
    /\ sOptions = <<>>
    /\ ~HasElem(sOptions, focusedIdx)
    /\ effects = <<>>

\* C4: Escape closes the switcher and dispatches no switch command, whatever
\* visibleOptions and focusedIndex are.
C4_EscapeClosesWithoutSwitch ==
    [][lastEvent' = "Escape" =>
          /\ effects' = Append(effects, PopModal)
          /\ UNCHANGED <<options, sOptions, focusedIdx, searchText>>]_vars

\* Escape was pressed with the cursor on an option
C4_Witness ==
    /\ lastEvent = "Escape"
    /\ HasElem(sOptions, focusedIdx)
    /\ focusedIdx >= 1
    /\ effects = <<PopModal>>

\* C5: per activation the close is invoked at most once and a switch command
\* is dispatched at most once, also for events that arrive after a close was
\* requested and before the unmount.
C5_OneTerminalAction ==
    /\ CountOp(effects, "popModal") <= 1
    /\ CountOp(effects, "switchScreen") <= 1

(***************************************************************************)
(* The filter predicate as the specification states it: the comparison is  *)
(* case-insensitive on both sides, and a text with a '/' is split on its   *)
(* first '/'.                                                              *)
(***************************************************************************)
hasSlash(q) == \E i \in 1..Len(q) : q[i] = "/"

firstSlash(q) == CHOOSE i \in 1..Len(q) : q[i] = "/" /\ \A j \in 1..(i - 1) : q[j] # "/"

sessionQuery(q) == toLowerCase(trim(SubSeq(q, 1, firstSlash(q) - 1)))

tabQuery(q) == toLowerCase(trim(SubSeq(q, firstSlash(q) + 1, Len(q))))

matchesPlain(O, q) ==
    \/ includes(toLowerCase(O.sessionName), toLowerCase(q))
    \/ includes(toLowerCase(O.screenName), toLowerCase(q))

matchesSlash(O, q) ==
    /\ includes(toLowerCase(O.sessionName), sessionQuery(q))
    /\ includes(toLowerCase(O.screenName), tabQuery(q))

matches(O, q) ==
    IF q = <<>> THEN TRUE
    ELSE IF hasSlash(q) THEN matchesSlash(O, q)
    ELSE matchesPlain(O, q)

isVisible(O) == \E i \in 1..Len(sOptions) : sOptions[i] = O

\* C6: visibleOptions is the first 100 elements of
\* rank(filter(allOptions, searchText)) for the current searchText.
C6_VisibleIsRankedFilter ==
    sOptions = slice(sortOptions(SelectSeq(options, LAMBDA O : matches(O, searchText)),
                                 activeSessionIdx),
                     MaxOptionsToDisplay)

\* C7: len(visibleOptions) <= 100 in every reachable state, right after
\* initialization and after every search update, also when more than 100
\* options match.
C7_AtMostCap == Len(sOptions) <= MaxOptionsToDisplay

\* more than 100 options match the text searched last, and 100 are shown
C7_Witness ==
    /\ lastEvent = "search"
    /\ Len(filterOptions(options, searchText)) > MaxOptionsToDisplay
    /\ Len(sOptions) = MaxOptionsToDisplay

\* C8: for a text q without '/', an option is kept exactly when its
\* lower-cased session name or its lower-cased tab name contains the
\* lower-cased q.
C8_FilterCaseInsensitive ==
    ~hasSlash(searchText) =>
        \A i \in 1..Len(options) :
            isVisible(options[i]) <=> matchesPlain(options[i], searchText)

\* C9: a text q with a '/' is split on its first '/', both sides trimmed and
\* lower-cased, and an option is kept exactly when its lower-cased session
\* name contains the left side and its lower-cased tab name the right side.
C9_SlashSplitOnFirst ==
    hasSlash(searchText) =>
        \A i \in 1..Len(options) :
            isVisible(options[i]) <=> matchesSlash(options[i], searchText)

activeFirst(seq) ==
    \A i, j \in 1..Len(seq) :
        (seq[i].sessionIdx = activeSessionIdx /\ seq[j].sessionIdx # activeSessionIdx)
            => i < j

\* C10: in the output of the ranking, and so in visibleOptions, every option
\* of the active session is before every option of another session, whatever
\* the screenIdx values.
C10_ActiveSessionFirst == activeFirst(options) /\ activeFirst(sOptions)

\* an option of the active session is shown before an option of another
\* session that has the lower sessionIdx and the lower screenIdx, and that
\* came first in the registry
C10_Witness ==
    /\ isOpen
    /\ Len(sOptions) >= 2
    /\ sOptions[1].sessionIdx = activeSessionIdx
    /\ sOptions[2].sessionIdx < sOptions[1].sessionIdx
    /\ sOptions[2].screenIdx < sOptions[1].screenIdx
    /\ screenMap[1].screenId = sOptions[2].screenId

isActive(O) == O.sessionIdx = activeSessionIdx

rankOrdered(seq) ==
    \A i, j \in 1..Len(seq) :
        i < j =>
            /\ (isActive(seq[i]) /\ isActive(seq[j]))
                   => seq[i].screenIdx <= seq[j].screenIdx
            /\ (~isActive(seq[i]) /\ ~isActive(seq[j]))
                   => \/ seq[i].sessionIdx < seq[j].sessionIdx
                      \/ /\ seq[i].sessionIdx = seq[j].sessionIdx
                         /\ seq[i].screenIdx <= seq[j].screenIdx

\* C11: in the output of the ranking the options of the active session are
\* in ascending screenIdx order, and the options of the other sessions are in
\* ascending sessionIdx order, ties on sessionIdx broken by ascending
\* screenIdx.
C11_RankOrder == rankOrdered(options) /\ rankOrdered(sOptions)

\* three options of other sessions are shown: two of one session in
\* screenIdx order, then one of a later session that has a lower screenIdx
\* and came first in the registry
C11_Witness ==
    /\ isOpen
    /\ Len(sOptions) = 3
    /\ \A i \in 1..3 : ~isActive(sOptions[i])
    /\ sOptions[1].sessionIdx = sOptions[2].sessionIdx
    /\ sOptions[1].screenIdx < sOptions[2].screenIdx
    /\ sOptions[2].sessionIdx < sOptions[3].sessionIdx
    /\ sOptions[3].screenIdx < sOptions[2].screenIdx
    /\ screenMap[1].screenId = sOptions[3].screenId
    /\ screenMap[3].screenId = sOptions[1].screenId

\* the number of positions of seq that hold x
Count(seq, x) == Cardinality({i \in 1..Len(seq) : seq[i] = x})

isPermutation(r, s) ==
    /\ Len(r) = Len(s)
    /\ \A i \in 1..Len(s) : Count(r, s[i]) = Count(s, s[i])

sameKeys(x, y) == x.sessionIdx = y.sessionIdx /\ x.screenIdx = y.screenIdx

\* r keeps the order that two options with the same keys have in s (the
\* options of a snapshot are distinct: one per tab)
keepsTieOrder(r, s) ==
    \A i, j \in 1..Len(s) :
        (i < j /\ sameKeys(s[i], s[j]))
            => \E k, l \in 1..Len(r) : k < l /\ r[k] = s[i] /\ r[l] = s[j]

\* C12: the ranking is idempotent and order-preserving for equal keys: for
\* the snapshot s of every registry, rank(rank(s)) = rank(s), rank(s) is a
\* permutation of s, and two options with the same sessionIdx and screenIdx
\* keep their relative input order; the same holds for the list that is
\* shown, which is the ranking of the filtered options.
C12_RankIdempotentStable ==
    phase = "mounted" =>
        LET s == Snapshot(sessionList, screenMap)
            r == sortOptions(s, activeSessionIdx)
        IN  /\ options = r
            /\ sortOptions(r, activeSessionIdx) = r
            /\ isPermutation(r, s)
            /\ keepsTieOrder(r, s)
            /\ sortOptions(sOptions, activeSessionIdx) = sOptions
            /\ keepsTieOrder(sOptions, filterOptions(s, searchText))

\* the registry lists two tabs with the same keys and then a tab that ranks
\* before both: the ranking moved the third to the front and kept the two
\* in their registry order
C12_Witness ==
    /\ phase = "mounted"
    /\ Len(screenMap) = 3
    /\ Len(options) = 3
    /\ screenMap[1].sessionId = screenMap[2].sessionId
    /\ screenMap[1].screenIdx = screenMap[2].screenIdx
    /\ screenMap[1].screenId > screenMap[2].screenId
    /\ options[1].screenId = screenMap[3].screenId
    /\ options[2].screenId = screenMap[1].screenId
    /\ options[3].screenId = screenMap[2].screenId

\* C13: when allOptions is empty, visibleOptions is empty in every reachable
\* state, and ArrowUp, ArrowDown and Enter are no-ops: each leaves
\* focusedIndex, visibleOptions and the open status unchanged and dispatches
\* nothing.
C13_EmptyKeysAreNoOps ==
    /\ [](options = <<>> => sOptions = <<>>)
    /\ [][(phase = "mounted" /\ options = <<>>
             /\ lastEvent' \in {"ArrowUp", "ArrowDown", "Enter"})
            => UNCHANGED <<focusedIdx, sOptions, phase, effects>>]_vars

dispatchesSwitch ==
    CountOp(effects', "switchScreen") > CountOp(effects, "switchScreen")

\* C14 as stated: a switch command is dispatched only in response to an
\* Enter key event; no search change, arrow key, Escape or pointer click on
\* an option row reaches the commit path.
C14_SwitchOnlyOnEnter ==
    [][dispatchesSwitch => lastEvent' = "Enter"]_vars

\* C14 amended: a switch command is dispatched only in response to an Enter
\* key event or a pointer click on an option row; no search change, arrow
\* key, Escape or other key reaches the commit path.
C14_SwitchOnlyOnEnterOrClick ==
    [][dispatchesSwitch => lastEvent' \in {"Enter", "click"}]_vars

\* a click on a row other than the focused one dispatched the switch to the
\* clicked option and closed the switcher
C14_Witness ==
    /\ lastEvent = "click"
    /\ Len(effects) = 2
    /\ effects[1].op = "switchScreen"
    /\ effects[2].op = "popModal"
    /\ HasElem(sOptions, focusedIdx)
    /\ effects[1].screenId # sOptions[focusedIdx + 1].screenId

\* the sessions of the list that own the tab and are not archived
liveOwners(tab) ==
    {s \in Range(sessionList) : s.sessionId = tab.sessionId /\ ~s.archived}

optionsOfTab(tab) == {k \in 1..Len(options) : options[k].screenId = tab.screenId}

\* C15: at activation allOptions holds exactly one option for each tab of
\* the registry whose owning session is in the session list and not
\* archived, carrying the id, name and index of that session and the id,
\* name and index of the tab; a tab whose session is archived or absent
\* yields no option, and the activation completes all the same.
C15_SnapshotOnePerLiveTab ==
    phase = "mounted" =>
        /\ \A i \in 1..Len(screenMap) :
              LET tab == screenMap[i]
              IN  IF liveOwners(tab) = {}
                  THEN optionsOfTab(tab) = {}
                  ELSE /\ Cardinality(optionsOfTab(tab)) = 1
                       /\ \A k \in optionsOfTab(tab) :
                             /\ \E s \in liveOwners(tab) :
                                   /\ options[k].sessionId = s.sessionId
                                   /\ options[k].sessionName = s.name
                                   /\ options[k].sessionIdx = s.sessionIdx
                             /\ options[k].screenName = tab.name
                             /\ options[k].screenIdx = tab.screenIdx
        /\ \A k \in 1..Len(options) :
              \E i \in 1..Len(screenMap) : options[k].screenId = screenMap[i].screenId

\* the registry holds a tab of an archived session, a tab of a session that
\* is not in the list and a tab of a live session: the switcher is mounted
\* with the one option of the live tab
C15_Witness ==
    /\ phase = "mounted"
    /\ lastEvent = "mount"
    /\ Len(screenMap) = 3
    /\ \E i \in 1..3 : \E s \in Range(sessionList) :
          s.sessionId = screenMap[i].sessionId /\ s.archived
    /\ \E i \in 1..3 : \A s \in Range(sessionList) :
          s.sessionId # screenMap[i].sessionId
    /\ Len(options) = 1
    /\ options[1].sessionName = <<"z">>
    /\ options[1].screenName = <<"A", " ">>

\* C16: the option list is a point-in-time snapshot: while the switcher is
\* open, no step changes allOptions or activeSessionIdx, a change of the
\* registry (a tab or session added, removed, renamed, re-indexed or
\* archived, or the active session changed) leaves visibleOptions as it is,
\* and after every later search update visibleOptions is still computed from
\* the allOptions and the activeSessionIdx of the activation.
C16_SnapshotNotResynced ==
    [][phase = "mounted" =>
          /\ options' = options
          /\ activeSessionIdx' = activeSessionIdx
          /\ (registry' # registry => sOptions' = sOptions)
          /\ sOptions' = slice(sortOptions(filterOptions(options, searchText'),
                                           activeSessionIdx), MaxOptionsToDisplay)]_vars

\* after the activation the registry has lost the tab of the first option,
\* its session was archived and another session is active; a later search
\* for "a" still shows that option first
C16_Witness ==
    /\ phase = "mounted"
    /\ lastEvent = "search"
    /\ searchText = <<"a">>
    /\ Len(sOptions) = 2
    /\ sOptions[1].sessionIdx = activeSessionIdx
    /\ activeSession.sessionIdx # activeSessionIdx
    /\ \A i \in 1..Len(screenMap) : screenMap[i].screenId # sOptions[1].screenId
    /\ \E i \in 1..Len(sessionList) :
          sessionList[i].sessionId = sOptions[1].sessionId /\ sessionList[i].archived

\* C17: the keydown listener is registered exactly once on mount and removed
\* on unmount: at most one listener of the component is registered in every
\* reachable state, exactly one while the component is mounted and none
\* before the mount and after the unmount, and after the unmount no event
\* changes the state of the switcher or dispatches a close or a switch.
C17_ListenerLifecycle ==
    /\ [](listeners <= 1)
    /\ [](listeners = 1 <=> phase = "mounted")
    /\ [](phase = "unmounted" => listeners = 0)
    /\ [][phase = "unmounted" => UNCHANGED vars]_vars

\* the component was closed by a key and then unmounted, while a further key
\* event would still have been followed had the listener stayed
C17_Witness ==
    /\ phase = "unmounted"
    /\ lastEvent = "unmount"
    /\ listeners = 0
    /\ popped
    /\ lateEvents < MaxLateEvents

\* C18: every search update, whatever the text and the state before it, sets
\* visibleOptions to rank(filter(allOptions, text)) cut to 100 and
\* focusedIndex to 0 in one step; with the empty text every option matches
\* and visibleOptions is the initial one again.
C18_SearchRecomputes ==
    [][lastEvent' = "search" =>
          /\ sOptions' = slice(sortOptions(SelectSeq(options,
                                                     LAMBDA O : matches(O, searchText')),
                                           activeSessionIdx),
                               MaxOptionsToDisplay)
          /\ focusedIdx' = 0
          /\ searchText' = <<>> =>
                sOptions' = slice(sortOptions(options, activeSessionIdx),
                                  MaxOptionsToDisplay)]_vars

Min(a, b) == IF a < b THEN a ELSE b

\* C19: ArrowDown sets focusedIndex to
\* min(focusedIndex + 1, len(visibleOptions) - 1); with a non-empty
\* visibleOptions and the cursor on the last visible option it leaves
\* focusedIndex unchanged (no wrap-around).
C19_ArrowDownClamps ==
    [][lastEvent' = "ArrowDown" =>
          /\ focusedIdx' = Min(focusedIdx + 1, Len(sOptions) - 1)
          /\ (sOptions # <<>> /\ focusedIdx = Len(sOptions) - 1)
                 => focusedIdx' = focusedIdx]_vars

\* ArrowDown was the last event and the cursor is on the last of two
\* visible options
C19_Witness ==
    /\ isOpen
    /\ lastEvent = "ArrowDown"
    /\ Len(sOptions) = 2
    /\ focusedIdx = 1

\* C20: ArrowUp sets focusedIndex to max(focusedIndex - 1, 0): the result is
\* never negative, it is never the end of the list reached by wrapping, and
\* at index 0 focusedIndex is unchanged.
C20_ArrowUpClamps ==
    [][lastEvent' = "ArrowUp" =>
          /\ focusedIdx' = Max(focusedIdx - 1, 0)
          /\ focusedIdx' >= 0
          /\ focusedIdx' <= Max(focusedIdx, 0)
          /\ focusedIdx = 0 => focusedIdx' = 0]_vars

\* ArrowUp was the last event and the cursor is on the first of two visible
\* options
C20_Witness ==
    /\ isOpen
    /\ lastEvent = "ArrowUp"
    /\ Len(sOptions) = 2
    /\ focusedIdx = 0

\* C21: after a search update that leaves visibleOptions with length L > 0,
\* focusedIndex is in 0..L-1; and whenever focusedIndex >= len(visibleOptions)
\* holds with a non-empty list, the next update cycle sets focusedIndex to
\* len(visibleOptions) - 1.
C21_CursorClamped ==
    [][/\ (lastEvent' = "search" /\ Len(sOptions') > 0)
            => (0 <= focusedIdx' /\ focusedIdx' <= Len(sOptions') - 1)
       /\ (lastEvent' = "update" /\ Len(sOptions) > 0 /\ focusedIdx >= Len(sOptions))
            => focusedIdx' = Len(sOptions) - 1]_vars

\* an update cycle has just moved a cursor that was past the end of a list
\* of two options to the last of them
C21_Witness ==
    /\ lastEvent = "update"
    /\ Len(sOptions) = 2
    /\ prevFocusedIdx >= 2
    /\ focusedIdx = 1

\* C22: once the initialization has finished, allOptions (its elements and
\* their order) and activeSessionIdx never change: no search update, key
\* event, click or unmount modifies them.
C22_OptionsFixed ==
    [][phase = "mounted" =>
          (options' = options /\ activeSessionIdx' = activeSessionIdx)]_vars

\* a search has narrowed the visible list to one option while allOptions
\* still holds both options in ranked order
C22_Witness ==
    /\ phase = "mounted"
    /\ lastEvent = "search"
    /\ searchText # <<>>
    /\ Len(options) = 2
    /\ Len(sOptions) = 1
    /\ sOptions[1] = options[2]
    /\ options[1].sessionIdx = activeSessionIdx

\* C23: ArrowUp and ArrowDown change nothing but focusedIndex: they leave
\* searchText, visibleOptions and allOptions unchanged, dispatch no command
\* and do not close the switcher.
C23_ArrowsMoveCursorOnly ==
    [][lastEvent' \in {"ArrowUp", "ArrowDown"} =>
          UNCHANGED <<searchText, sOptions, options, activeSessionIdx, effects,
                      phase, listeners>>]_vars

\* ArrowDown has moved the cursor to the second option of a searched list,
\* and nothing was dispatched
C23_Witness ==
    /\ isOpen
    /\ lastEvent = "ArrowDown"
    /\ searchText # <<>>
    /\ Len(sOptions) = 2
    /\ focusedIdx = 1
    /\ effects = <<>>

\* the switch command a step has dispatched
newSwitch == effects'[Len(effects) + 1]

samePair(O, e) == O.screenId = e.screenId /\ O.sessionId = e.sessionId

\* C24: every switch command targets an option that is in visibleOptions at
\* the moment of dispatch: its (screenId, sessionId) pair is the pair of
\* exactly one option of allOptions, that option matches the current search
\* text, and its session is a session that was not archived at snapshot
\* time.
C24_SwitchTargetsVisibleMatch ==
    [][dispatchesSwitch =>
          /\ \E i \in 1..Len(sOptions) : samePair(sOptions[i], newSwitch)
          /\ Cardinality({k \in 1..Len(options) : samePair(options[k], newSwitch)}) = 1
          /\ \A k \in 1..Len(options) :
                samePair(options[k], newSwitch) => matches(options[k], searchText)
          /\ \E s \in Range(sessionList) :
                s.sessionId = newSwitch.sessionId /\ ~s.archived]_vars

\* a step dispatches the command op
dispatchesOp(op) ==
    /\ Len(effects') = Len(effects) + 1
    /\ effects'[Len(effects')].op = op

\* C25: in the connection detail modal an archive command is never
\* dispatched for a remote whose status is "connected" at the moment of
\* dispatch, also when the status of the remote or the selected remote
\* changes between the click on Delete and the answer to the dialog.
C25_NeverArchivesConnected ==
    [][dispatchesOp("archiveRemote") =>
          remotes[effects'[Len(effects')].remoteid].status # "connected"]_vars

archivesOfClick(n) ==
    {k \in 1..Len(effects) : effects[k].op = "archiveRemote" /\ effects[k].click = n}

alertOfClick(n, kind, answer) ==
    \E i \in 1..Len(alerts) :
        alerts[i].click = n /\ alerts[i].kind = kind /\ alerts[i].answer = answer

\* a step in which a dialog is answered
answered == Len(alerts') = Len(alerts) /\ alerts' # alerts

\* C26: in the connection detail modal a click on Delete dispatches at most
\* one archive command, and only after the confirmation dialog of that click
\* resolved with true: the click itself dispatches nothing, and no archive
\* command is dispatched when the user cancels, when the selected remote was
\* connected at click time (no confirmation dialog is opened) or when no
\* remote is selected at resolution time.
C26_ArchiveOnlyAfterConfirm ==
    /\ [](\A n \in 1..clicks :
             /\ Cardinality(archivesOfClick(n)) <= 1
             /\ archivesOfClick(n) # {} => alertOfClick(n, "confirmArchive", "true"))
    /\ [][/\ (clicks' # clicks /\ lastEvent' = "clickArchive") =>
               /\ effects' = effects
               /\ (~selectedRemote.isNull /\ selectedRemote.status = "connected")
                     => alerts'[Len(alerts')].kind # "confirmArchive"
          /\ (answered /\ selectedRemote.isNull) => ~dispatchesOp("archiveRemote")
          /\ (answered /\ \E i \in 1..Len(alerts) :
                  alerts[i].answer = "open" /\ alerts'[i].answer = "false")
               => effects' = effects]_vars

\* two clicks on Delete: the first dialog was cancelled, the second confirmed,
\* and the one archive command comes from the second
C26_Witness ==
    /\ Len(alerts) = 2
    /\ alerts[1].kind = "confirmArchive" /\ alerts[1].answer = "false"
    /\ alerts[2].kind = "confirmArchive" /\ alerts[2].answer = "true"
    /\ Len(effects) = 1
    /\ effects[1].op = "archiveRemote"
    /\ effects[1].click = 2

importsOfClick(n) ==
    {k \in 1..Len(effects) : effects[k].op = "importSshConfig" /\ effects[k].click = n}

\* C27: in the connections view, when the hideShellPrompt confirm flag is
\* set, a click on Import Config opens the warning dialog and the
\* import-ssh-config command is dispatched only after that dialog resolved
\* with true, never when it resolved with false; when the flag is not set the
\* command is dispatched at once with no dialog; at most one command per
\* click in both cases.
C27_ImportAfterWarning ==
    /\ [](\A n \in 1..clicks :
             /\ Cardinality(importsOfClick(n)) <= 1
             /\ (hideShellPrompt /\ importsOfClick(n) # {})
                   => alertOfClick(n, "shellPrompt", "true")
             /\ ~hideShellPrompt => \A i \in 1..Len(alerts) : alerts[i].click # n
                                                              \/ alerts[i].kind # "shellPrompt")
    /\ [][/\ (clicks' # clicks /\ lastEvent' = "clickImport") =>
               IF hideShellPrompt
               THEN /\ effects' = effects
                    /\ alerts' = Append(alerts, Alert(clicks', "shellPrompt"))
               ELSE /\ effects' = Append(effects, ImportSshConfig(clicks'))
                    /\ alerts' = alerts
          /\ (answered /\ \E i \in 1..Len(alerts) :
                  alerts[i].answer = "open" /\ alerts'[i].answer = "false")
               => effects' = effects]_vars

\* with the flag set, two clicks on Import Config: the first warning was
\* refused, the second accepted, and the one command comes from the second
C27_Witness ==
    /\ hideShellPrompt
    /\ Len(alerts) = 2
    /\ alerts[1].kind = "shellPrompt" /\ alerts[1].answer = "false"
    /\ alerts[2].kind = "shellPrompt" /\ alerts[2].answer = "true"
    /\ Len(effects) = 1
    /\ effects[1].op = "importSshConfig"
    /\ effects[1].click = 2

submitted == editPhase = "mounted" /\ editPhase' = "closed"

\* the "password" arguments of the edit command a submit has dispatched
passwordArgs == {a \in effects'[Len(effects) + 1].kwargs : a[1] = "password"}

usesPassword(authMode) == authMode \in {"password", "key+password"}

\* C28: in the edit-connection modal a submit never sends the placeholder
\* "--unchanged--" as the password: the edit command carries a "password"
\* argument only when the auth mode uses a password and the password field
\* differs from the placeholder (then the value of the field), or when the
\* auth mode uses no password and the remote has a stored password (then the
\* empty string); every submit dispatches exactly one edit command, with
\* visual = "1" and submit = "1", and then closes the modal.
C28_SubmitNeverSendsPlaceholder ==
    [][submitted =>
          /\ Len(effects') = Len(effects) + 2
          /\ SubSeq(effects', 1, Len(effects)) = effects
          /\ effects'[Len(effects) + 1].op = "editRemote"
          /\ effects'[Len(effects) + 2].op = "closeModal"
          /\ <<"visual", "1">> \in effects'[Len(effects) + 1].kwargs
          /\ <<"submit", "1">> \in effects'[Len(effects) + 1].kwargs
          /\ <<"password", PasswordUnchangedSentinel>> \notin passwordArgs
          /\ passwordArgs =
                IF usesPassword(tempAuthMode) /\ tempPassword # PasswordUnchangedSentinel
                THEN {<<"password", tempPassword>>}
                ELSE IF ~usesPassword(tempAuthMode) /\ remoteEdit.haspassword
                     THEN {<<"password", "">>}
                     ELSE {}]_vars

\* a submit in a password mode with the placeholder still in the field of a
\* remote that has a stored password: the command carries no password
C28_Witness ==
    /\ editPhase = "closed"
    /\ remoteEdit.haspassword
    /\ tempAuthMode = "key+password"
    /\ tempPassword = PasswordUnchangedSentinel
    /\ Len(effects) = 2
    /\ effects[1].op = "editRemote"
    /\ \A a \in effects[1].kwargs : a[1] # "password"
    /\ effects[2].op = "closeModal"

====
